---- MODULE Spec2Model ----
(***************************************************************************)
(* Model of typecheck_runner (src/src/typecheck_runner/typecheck_runner.py)*)
(* and of its historical variant (src/src/typecheck_runner/cli.py).        *)
(*                                                                         *)
(* Representation.  A Python str is a sequence of chunks (a chunk is a run *)
(* of characters the program never looks inside, written as a TLA+ string);*)
(* " " is the whitespace chunk, "'" the quote chunk, "/" the path          *)
(* separator.  A list of str is a sequence of such sequences.  An optional *)
(* value is None (the empty tuple) or Some(x) (a 1-tuple), so that the     *)
(* empty str Some(<<>>) differs from None as "" differs from None.         *)
(* A call that may raise yields Ok(v) or Raise(exception, message).        *)
(***************************************************************************)
EXTENDS Integers, Sequences, FiniteSets, TLC

VARIABLES
    options,          \* the argparse namespace main() works from
    env,              \* environment read by the program (os.environ, files, PATH, platform)
    pc,               \* position of main(): "start", "resolve", "loop", "flags", "run",
                      \* "called", "done", "raised" ("idle": main is not running)
    python_version,   \* main's local python_version (Optional str)
    python_executable,\* main's local python_executable (Optional str)
    uvx_options,      \* main's local uvx_options (list of str)
    idx,              \* 1-based position of `command` in options.checkers
    checker,          \* main's local checker (identity)
    args,             \* main's local args (parsed argv)
    flags,            \* value of _get_python_flags(...) for the current checker
    code,             \* main's local code (accumulator)
    ret,              \* value returned by main: None or Some(int)
    exc,              \* exception propagated out of main: Ok(<<>>) or Raise(..)
    trace,            \* calls made so far, in order: [op, k, argv]
    codes,            \* checker_code of every finished _run_checker call, in order
    unit              \* a single call of one function: [fn, arg, res]

vars == <<options, env, pc, python_version, python_executable, uvx_options, idx,
          checker, args, flags, code, ret, exc, trace, codes, unit>>

mainVars == <<options, env, pc, python_version, python_executable, uvx_options, idx,
              checker, args, flags, code, ret, exc, trace, codes>>

----------------------------------------------------------------------------
(* Values *)

None == <<>>

Some(x) == <<x>>

Ok(v) == [exc |-> "", msg |-> <<>>, val |-> v]

Raise(e, m) == [exc |-> e, msg |-> m, val |-> <<>>]

Range(s) == {s[n] : n \in 1..Len(s)}

\* every sequence over S of length 0..n
SeqsUpTo(S, n) == UNION {[1..m -> S] : m \in 0..n}

----------------------------------------------------------------------------
(* FlagMapper: _get_python_flags *)

PYRIGHT_LIKE_CHECKERS == {<<"pyright">>, <<"basedpyright">>}

\* mutant: the executable flag is emitted before the version flag
FlagsExecutableFirst(chk, version, executable) ==
    LET ver == IF version # None
               THEN << <<"--", IF chk \in PYRIGHT_LIKE_CHECKERS THEN "pythonversion"
                                  ELSE "python-version", "=">> \o version[1] >>
               ELSE <<>>
        exe == IF executable # None
               THEN << <<"--", IF chk \in PYRIGHT_LIKE_CHECKERS THEN "pythonpath"
                                  ELSE IF chk = <<"ty">> THEN "python"
                                  ELSE IF chk = <<"pyrefly">> THEN "python-interpreter-path"
                                  ELSE "python-executable", "=">> \o executable[1] >>
               ELSE <<>>
    IN  IF executable # None
           /\ chk \notin PYRIGHT_LIKE_CHECKERS \cup {<<"ty">>, <<"pyrefly">>, <<"mypy">>}
        THEN Raise("ValueError", <<"Unknown checker ">> \o chk)
        ELSE Ok(exe \o ver)

\* mutant: an unrecognized identity falls through to mypy's flag (no raise)
FlagsUnknownAsMypy(chk, version, executable) ==
    LET ver == IF version # None
               THEN << <<"--", IF chk \in PYRIGHT_LIKE_CHECKERS THEN "pythonversion"
                                  ELSE "python-version", "=">> \o version[1] >>
               ELSE <<>>
        exe == IF executable # None
               THEN << <<"--", IF chk \in PYRIGHT_LIKE_CHECKERS THEN "pythonpath"
                                  ELSE IF chk = <<"ty">> THEN "python"
                                  ELSE IF chk = <<"pyrefly">> THEN "python-interpreter-path"
                                  ELSE "python-executable", "=">> \o executable[1] >>
               ELSE <<>>
    IN  Ok(ver \o exe)

\* typecheck_runner._get_python_flags: out is built version flag first, then
\* the executable flag; the identity is only rejected inside the executable
\* branch, after the version flag has been appended.
_get_python_flags(chk, version, executable) ==
    LET out0 == <<>>
        out1 == IF version # None
                THEN LET version_flag == IF chk \in PYRIGHT_LIKE_CHECKERS
                                         THEN "pythonversion" ELSE "python-version"
                     IN  Append(out0, <<"--", version_flag, "=">> \o version[1])
                ELSE out0
    IN  IF executable # None
        THEN IF chk \in PYRIGHT_LIKE_CHECKERS
             THEN Ok(Append(out1, <<"--", "pythonpath", "=">> \o executable[1]))
             ELSE IF chk = <<"ty">>
             THEN Ok(Append(out1, <<"--", "python", "=">> \o executable[1]))
             ELSE IF chk = <<"pyrefly">>
             THEN Ok(Append(out1, <<"--", "python-interpreter-path", "=">> \o executable[1]))
             ELSE IF chk = <<"mypy">>
             THEN Ok(Append(out1, <<"--", "python-executable", "=">> \o executable[1]))
             ELSE Raise("ValueError", <<"Unknown checker ">> \o chk)
        ELSE Ok(out1)

----------------------------------------------------------------------------
(* CommandParser: shlex.split, Requirement, Path, shutil.which *)

RECURSIVE ShlexScan(_, _, _, _, _)
\* shlex.split(command) in POSIX mode over the chunks of `command`:
\* unquoted whitespace ends a token, a quote toggles quoting and starts a
\* token (so '' is an empty token), anything else extends the token; a quote
\* left open at the end raises ValueError("No closing quotation").
ShlexScan(s, toks, cur, started, quoted) ==
    IF s = <<>>
    THEN IF quoted THEN Raise("ValueError", <<"No closing quotation">>)
         ELSE Ok(IF started THEN Append(toks, cur) ELSE toks)
    ELSE IF Head(s) = "'"
    THEN ShlexScan(Tail(s), toks, cur, TRUE, ~quoted)
    ELSE IF Head(s) = " " /\ ~quoted
    THEN IF started THEN ShlexScan(Tail(s), Append(toks, cur), <<>>, FALSE, FALSE)
         ELSE ShlexScan(Tail(s), toks, <<>>, FALSE, FALSE)
    ELSE ShlexScan(Tail(s), toks, Append(cur, Head(s)), TRUE, quoted)

shlex_split(s) == ShlexScan(s, <<>>, <<>>, FALSE, FALSE)

\* chunks that are PEP 508 identifiers (letters, digits, inner "-", "_", ".")
Identifiers ==
    {"mypy", "pyright", "basedpyright", "ty", "pyrefly", "pylint", "other",
     "faster-cache", "check", "path", "to", "home", "user", "usr", "bin"}

\* chunks that are PEP 440 versions
VersionChunks == {"1.18"}

\* mutant: the name keeps its extras and version specifier
RequirementWholeToken(tok) ==
    IF tok = <<>> \/ Head(tok) \notin Identifiers
    THEN Raise("InvalidRequirement", tok)
    ELSE Ok(tok)

\* packaging.requirements.Requirement(token).name: a name, then optional
\* [extras], then an optional version specifier; anything else is
\* InvalidRequirement (a ValueError).
Requirement(tok) ==
    LET bad == Raise("InvalidRequirement", tok)
        SpecifierOk(r) == r = <<>> \/ (Len(r) = 2 /\ r[1] = "==" /\ r[2] \in VersionChunks)
    IN  IF tok = <<>> \/ Head(tok) \notin Identifiers THEN bad
        ELSE LET rest == Tail(tok)
             IN  IF rest # <<>> /\ Head(rest) = "["
                 THEN IF Len(rest) >= 3 /\ rest[2] \in Identifiers /\ rest[3] = "]"
                         /\ SpecifierOk(SubSeq(rest, 4, Len(rest)))
                      THEN Ok(<<Head(tok)>>) ELSE bad
                 ELSE IF SpecifierOk(rest) THEN Ok(<<Head(tok)>>) ELSE bad

\* str(Path(s)): a trailing separator is dropped and the empty path is "."
PathStr(s) ==
    IF s = <<>> THEN <<".">>
    ELSE IF Len(s) > 1 /\ s[Len(s)] = "/" THEN SubSeq(s, 1, Len(s) - 1)
    ELSE s

\* mutant: "~" is left as it is
ExpanduserNot(p, home) == p

\* Path.expanduser(): a leading "~" component is replaced by the home directory
expanduser(p, home) ==
    IF p # <<>> /\ Head(p) = "~" /\ (Len(p) = 1 \/ p[2] = "/")
    THEN home \o Tail(p)
    ELSE p

\* Path.name: the last component ("" for ".", and for the root)
PathName(p) ==
    IF p = <<".">> THEN <<>>
    ELSE LET seps == {n \in 1..Len(p) : p[n] = "/"}
             last == IF seps = {} THEN 0 ELSE CHOOSE n \in seps : \A m \in seps : m <= n
         IN  SubSeq(p, last + 1, Len(p))

\* Path.absolute(): a relative path is joined to the working directory
absolute(p, cwd) ==
    IF p # <<>> /\ Head(p) = "/" THEN p
    ELSE IF p = <<".">> THEN cwd
    ELSE cwd \o <<"/">> \o p

\* mutant: the base name of the command is looked up on PATH
WhichBaseName(cmd, e) ==
    LET seps == {n \in 1..Len(cmd) : cmd[n] = "/"}
        last == IF seps = {} THEN 0 ELSE CHOOSE n \in seps : \A m \in seps : m <= n
        base == SubSeq(cmd, last + 1, Len(cmd))
    IN  IF (e.path_dir \o <<"/">> \o base) \in e.executables
        THEN Some(e.path_dir \o <<"/">> \o base)
        ELSE None

\* shutil.which(cmd): a command with a directory part is returned as it is when
\* it is an executable file, and is not looked up on PATH; a bare name is
\* looked up in the PATH directory.  None when nothing is found.
which(cmd, e) ==
    IF \E n \in 1..Len(cmd) : cmd[n] = "/"
    THEN IF cmd \in e.executables THEN Some(cmd) ELSE None
    ELSE IF (e.path_dir \o <<"/">> \o cmd) \in e.executables
         THEN Some(e.path_dir \o <<"/">> \o cmd)
         ELSE None

\* mutant: "check" is only looked for in first position
MaybeAddCheckFirstOnly(chk, a) ==
    IF chk \in {<<"ty">>, <<"pyrefly">>} /\ (a = <<>> \/ Head(a) # <<"check">>)
    THEN <<<<"check">>>> \o a
    ELSE a

\* typecheck_runner._maybe_add_check_argument
_maybe_add_check_argument(chk, a) ==
    IF chk \in {<<"ty">>, <<"pyrefly">>} /\ <<"check">> \notin Range(a)
    THEN <<<<"check">>>> \o a
    ELSE a

\* mutant: the split is made at the last occurrence of the delimiter
IndexLast(a, x) ==
    IF x \in Range(a)
    THEN CHOOSE n \in 1..Len(a) : a[n] = x /\ \A m \in (n + 1)..Len(a) : a[m] # x
    ELSE Len(a) + 1

\* args.index(x) as a 1-based position, or Len(a) + 1 when x is not in a
\* (idx = len(args) in the source)
IndexOrLen(a, x) ==
    IF x \in Range(a)
    THEN CHOOSE n \in 1..Len(a) : a[n] = x /\ \A m \in 1..(n - 1) : a[m] # x
    ELSE Len(a) + 1

\* cli._parse_uvx_command (the historical variant): the constraints follow the
\* after-delimiter arguments and no "check" token is added
cli_parse_uvx_command(command, constraints, uvx_delimiter, uvx_opts) ==
    LET split == shlex_split(command)
        opts  == shlex_split(uvx_opts)
    IN  IF split.exc # "" THEN split
        ELSE IF split.val = <<>>
        THEN Raise("ValueError", <<"not enough values to unpack">>)
        ELSE
        LET cmd  == Head(split.val)
            rest == Tail(split.val)
            req  == Requirement(cmd)
        IN  IF req.exc # "" THEN req
            ELSE
            LET i            == IndexOrLen(rest, uvx_delimiter)
                checker_args == SubSeq(rest, 1, i - 1)
                uvx_args     == SubSeq(rest, i + 1, Len(rest))
            IN  IF opts.exc # "" THEN opts
                ELSE Ok([checker |-> req.val,
                         args |-> <<<<"uvx">>>> \o opts.val \o uvx_args
                                  \o [n \in 1..Len(constraints) |->
                                          <<"--", "constraints", "=">> \o constraints[n]]
                                  \o <<cmd>> \o checker_args])

\* typecheck_runner._parse_command; the result value is [checker, args]
_parse_command(command, no_uvx, uvx_delimiter, uvx_opts, e) ==
    LET split == shlex_split(command)
    IN  IF split.exc # "" THEN split
        ELSE IF split.val = <<>>
        THEN Raise("ValueError", <<"not enough values to unpack">>)
        ELSE
        LET cmd  == Head(split.val)
            rest == Tail(split.val)
        IN  IF no_uvx
            THEN LET path     == expanduser(PathStr(cmd), e.home)
                     chk      == PathName(path)
                     path_str == path
                     found    == which(path_str, e)
                 IN  Ok([checker |-> chk,
                         args |-> <<IF found # None THEN found[1] ELSE path_str>>
                                  \o _maybe_add_check_argument(chk, rest)])
            ELSE LET req == Requirement(cmd)
                 IN  IF req.exc # "" THEN req
                     ELSE
                     LET chk          == req.val
                         i            == IndexOrLen(rest, uvx_delimiter)
                         checker_args == SubSeq(rest, 1, i - 1)
                         uvx_args     == SubSeq(rest, i + 1, Len(rest))
                     IN  Ok([checker |-> chk,
                             args |-> <<<<"uvx">>>> \o uvx_opts \o uvx_args \o <<cmd>>
                                      \o _maybe_add_check_argument(chk, checker_args)])

----------------------------------------------------------------------------
(* VersionResolver *)

\* Path.exists() / Path.is_dir() of a possibly relative path
Exists(p, e) == absolute(p, e.cwd) \in e.files

IsDir(p, e) == absolute(p, e.cwd) \in e.dirs

\* mutant: the .venv directory is probed before the environment variables
InferVenvDotVenvFirst(e) ==
    IF IsDir(<<".venv">>, e) THEN Ok(absolute(<<".venv">>, e.cwd))
    ELSE IF e.VIRTUAL_ENV # <<>> THEN Ok(absolute(PathStr(e.VIRTUAL_ENV), e.cwd))
    ELSE IF e.CONDA_PREFIX # <<>> THEN Ok(absolute(PathStr(e.CONDA_PREFIX), e.cwd))
    ELSE Raise("ValueError", <<"Could not infer virtual environment">>)

\* typecheck_runner._infer_venv_location
_infer_venv_location(e) ==
    IF e.VIRTUAL_ENV # <<>> THEN Ok(absolute(PathStr(e.VIRTUAL_ENV), e.cwd))
    ELSE IF e.CONDA_PREFIX # <<>> THEN Ok(absolute(PathStr(e.CONDA_PREFIX), e.cwd))
    ELSE IF IsDir(<<".venv">>, e) THEN Ok(absolute(<<".venv">>, e.cwd))
    ELSE Raise("ValueError", <<"Could not infer virtual environment">>)

\* mutant: Scripts is looked into before bin
FromVenvScriptsFirst(location, e) ==
    LET executable == IF e.win THEN "python.exe" ELSE "python"
        inBin      == location \o <<"/", "bin", "/", executable>>
        inScripts  == location \o <<"/", "Scripts", "/", executable>>
    IN  IF Exists(inScripts, e) THEN Ok(absolute(inScripts, e.cwd))
        ELSE IF Exists(inBin, e) THEN Ok(absolute(inBin, e.cwd))
        ELSE Raise("ValueError", <<"No virtual environment found under ">> \o location)

\* typecheck_runner._get_python_executable_from_venv
_get_python_executable_from_venv(location, e) ==
    LET executable == IF e.win THEN "python.exe" ELSE "python"
        inBin      == location \o <<"/", "bin", "/", executable>>
        inScripts  == location \o <<"/", "Scripts", "/", executable>>
    IN  IF Exists(inBin, e) THEN Ok(absolute(inBin, e.cwd))
        ELSE IF Exists(inScripts, e) THEN Ok(absolute(inScripts, e.cwd))
        ELSE Raise("ValueError", <<"No virtual environment found under ">> \o location)

\* mutant: an explicit executable wins over the virtual environment
ExecutableExplicitFirst(executable, venv, infer_venv, e) ==
    IF executable # None THEN Ok(executable)
    ELSE LET inferred == IF venv = None /\ infer_venv
                         THEN _infer_venv_location(e) ELSE Ok(<<>>)
         IN  IF inferred.exc # "" THEN inferred
             ELSE LET venv1 == IF venv = None /\ infer_venv
                               THEN Some(inferred.val) ELSE venv
                  IN  IF venv1 # None
                      THEN LET found == _get_python_executable_from_venv(venv1[1], e)
                           IN  IF found.exc # "" THEN found ELSE Ok(Some(found.val))
                      ELSE Ok(executable)

\* mutant: a failed venv discovery falls back to the explicit executable
ExecutableFallsBack(executable, venv, infer_venv, e) ==
    LET inferred == IF venv = None /\ infer_venv
                    THEN _infer_venv_location(e) ELSE Ok(<<>>)
    IN  IF inferred.exc # "" THEN Ok(executable)
        ELSE LET venv1 == IF venv = None /\ infer_venv
                          THEN Some(inferred.val) ELSE venv
             IN  IF venv1 # None
                 THEN LET found == _get_python_executable_from_venv(venv1[1], e)
                      IN  IF found.exc # "" THEN Ok(executable) ELSE Ok(Some(found.val))
                 ELSE Ok(executable)

\* typecheck_runner._get_python_executable; the result value is an optional path
_get_python_executable(executable, venv, infer_venv, e) ==
    LET inferred == IF venv = None /\ infer_venv
                    THEN _infer_venv_location(e) ELSE Ok(<<>>)
    IN  IF inferred.exc # "" THEN inferred
        ELSE LET venv1 == IF venv = None /\ infer_venv
                          THEN Some(inferred.val) ELSE venv
             IN  IF venv1 # None
                 THEN LET found == _get_python_executable_from_venv(venv1[1], e)
                      IN  IF found.exc # "" THEN found ELSE Ok(Some(found.val))
                 ELSE Ok(executable)

\* subprocess.check_output([python_executable, "-c", script]).decode().strip():
\* the interpreter prints its own major.minor; an interpreter that cannot be
\* started raises FileNotFoundError.
check_output_version(executable, e) ==
    IF which(executable, e) = None
    THEN Raise("FileNotFoundError", executable)
    ELSE Ok(e.exe_version)

\* mutant: --no-python-executable is not looked at
ValuesIgnoreNoExecutable(version, executable, no_python_version, no_python_executable, e) ==
    LET inferVersion == version = None /\ ~no_python_version
        probed == IF inferVersion /\ executable # None
                  THEN check_output_version(executable[1], e)
                  ELSE Ok(<<>>)
    IN  IF probed.exc # "" THEN probed
        ELSE Ok([version |->
                    IF inferVersion
                    THEN IF executable # None THEN Some(probed.val)
                         ELSE Some(<<e.sys_version.major, ".", e.sys_version.minor>>)
                    ELSE version,
                 executable |->
                    IF executable = None THEN Some(e.sys_executable) ELSE executable])

\* typecheck_runner._get_python_values; the result value is [version, executable]
_get_python_values(version, executable, no_python_version, no_python_executable, e) ==
    LET inferVersion == version = None /\ ~no_python_version
        probed == IF inferVersion /\ executable # None
                  THEN check_output_version(executable[1], e)
                  ELSE Ok(<<>>)
    IN  IF probed.exc # "" THEN probed
        ELSE Ok([version |->
                    IF inferVersion
                    THEN IF executable # None THEN Some(probed.val)
                         ELSE Some(<<e.sys_version.major, ".", e.sys_version.minor>>)
                    ELSE version,
                 executable |->
                    IF executable = None /\ ~no_python_executable
                    THEN Some(e.sys_executable)
                    ELSE executable])

----------------------------------------------------------------------------
(* Dispatcher: main *)

\* exit codes a child process can report (negative: killed by a signal)
ExitCodes == {-2, 0, 2, 3}

Event(op, k, argv) == [op |-> op, k |-> k, argv |-> argv]

\* mutant: the constraints flags are put before the launcher options
UvxOptionsConstraintsFirst(opts) ==
    LET split == shlex_split(opts.uvx_options)
    IN  IF split.exc # "" THEN split
        ELSE Ok([n \in 1..Len(opts.constraints) |->
                        <<"--", "constraints", "=">> \o opts.constraints[n]]
                \o split.val)

\* main, lines 397-400: launcher options, then one flag per constraints file
main_uvx_options(opts) ==
    LET split == shlex_split(opts.uvx_options)
    IN  IF split.exc # "" THEN split
        ELSE Ok(split.val
                \o [n \in 1..Len(opts.constraints) |->
                        <<"--", "constraints", "=">> \o opts.constraints[n]])

\* mutant: the empty checker list is tested before --version
StartHelpBeforeVersion ==
    /\ pc = "start"
    /\ IF options.checkers = <<>>
       THEN /\ ret' = Some(2)
            /\ pc' = "done"
            /\ trace' = Append(trace, Event("print_help", 0, <<>>))
       ELSE IF options.version
       THEN /\ ret' = Some(0)
            /\ pc' = "done"
            /\ trace' = Append(trace, Event("print", 0, <<>>))
       ELSE /\ pc' = "resolve"
            /\ UNCHANGED <<ret, trace>>
    /\ UNCHANGED <<options, env, python_version, python_executable, uvx_options, idx,
                   checker, args, flags, code, exc, codes, unit>>

\* main, lines 370-380: --version and the empty checker list return at once
MainStart ==
    /\ pc = "start"
    /\ IF options.version
       THEN /\ ret' = Some(0)
            /\ pc' = "done"
            /\ trace' = Append(trace, Event("print", 0, <<>>))
       ELSE IF options.checkers = <<>>
       THEN /\ ret' = Some(2)
            /\ pc' = "done"
            /\ trace' = Append(trace, Event("print_help", 0, <<>>))
       ELSE /\ pc' = "resolve"
            /\ UNCHANGED <<ret, trace>>
    /\ UNCHANGED <<options, env, python_version, python_executable, uvx_options, idx,
                   checker, args, flags, code, exc, codes, unit>>

\* main, lines 383-390: the helpers and the interpreter called while the
\* Python target is resolved, in call order; an exception ends the sequence
main_resolve_calls(opts, e) ==
    LET infer == opts.venv = None /\ opts.infer_venv
        loc   == IF infer THEN _infer_venv_location(e) ELSE Ok(<<>>)
        exe   == _get_python_executable(opts.python_executable, opts.venv,
                                        opts.infer_venv, e)
    IN  (IF infer THEN <<Event("_infer_venv_location", 0, <<>>)>> ELSE <<>>)
        \o (IF loc.exc = "" /\ (infer \/ opts.venv # None)
            THEN <<Event("_get_python_executable_from_venv", 0,
                         <<IF infer THEN loc.val ELSE opts.venv[1]>>)>>
            ELSE <<>>)
        \o (IF exe.exc = "" /\ exe.val # None
               /\ opts.python_version = None /\ ~opts.no_python_version
            THEN <<Event("subprocess.check_output", 0, <<exe.val[1]>>)>>
            ELSE <<>>)

\* main, lines 382-402: the Python target and the launcher options are
\* computed once, before the loop
MainResolve ==
    /\ pc = "resolve"
    /\ LET exe == _get_python_executable(options.python_executable, options.venv,
                                         options.infer_venv, env)
           val == IF exe.exc # "" THEN exe
                  ELSE _get_python_values(options.python_version, exe.val,
                                          options.no_python_version,
                                          options.no_python_executable, env)
           uvx == main_uvx_options(options)
       IN  IF val.exc # ""
           THEN /\ pc' = "raised"
                /\ exc' = val
                /\ UNCHANGED <<python_version, python_executable, uvx_options, code, idx>>
           ELSE IF uvx.exc # ""
           THEN /\ pc' = "raised"
                /\ exc' = uvx
                /\ python_version' = val.val.version
                /\ python_executable' = val.val.executable
                /\ UNCHANGED <<uvx_options, code, idx>>
           ELSE /\ pc' = "loop"
                /\ python_version' = val.val.version
                /\ python_executable' = val.val.executable
                /\ uvx_options' = uvx.val
                /\ code' = 0
                /\ idx' = 1
                /\ UNCHANGED exc
    /\ trace' = Append(trace, Event("resolve", 0, <<>>)) \o main_resolve_calls(options, env)
    /\ UNCHANGED <<options, env, checker, args, flags, ret, codes, unit>>

\* mutant: a command that cannot be parsed is skipped
ParseSkipsMalformed ==
    /\ pc = "loop"
    /\ idx <= Len(options.checkers)
    /\ LET r == _parse_command(options.checkers[idx], options.no_uvx,
                               options.uvx_delimiter, uvx_options, env)
       IN  IF r.exc # ""
           THEN /\ pc' = "loop"
                /\ idx' = idx + 1
                /\ UNCHANGED <<checker, args, exc>>
           ELSE /\ pc' = "flags"
                /\ checker' = r.val.checker
                /\ args' = r.val.args
                /\ UNCHANGED <<exc, idx>>
    /\ trace' = Append(trace, Event("_parse_command", idx, <<>>))
    /\ UNCHANGED <<options, env, python_version, python_executable, uvx_options,
                   flags, code, ret, codes, unit>>

\* main, lines 403-409: the next command is parsed
MainParse ==
    /\ pc = "loop"
    /\ idx <= Len(options.checkers)
    /\ LET r == _parse_command(options.checkers[idx], options.no_uvx,
                               options.uvx_delimiter, uvx_options, env)
       IN  IF r.exc # ""
           THEN /\ pc' = "raised"
                /\ exc' = r
                /\ UNCHANGED <<checker, args>>
           ELSE /\ pc' = "flags"
                /\ checker' = r.val.checker
                /\ args' = r.val.args
                /\ UNCHANGED exc
    /\ trace' = Append(trace, Event("_parse_command", idx, <<>>))
    /\ UNCHANGED <<options, env, python_version, python_executable, uvx_options, idx,
                   flags, code, ret, codes, unit>>

\* main, line 413: the flags are computed while the call's arguments are built
MainFlags ==
    /\ pc = "flags"
    /\ LET r == _get_python_flags(checker, python_version, python_executable)
       IN  IF r.exc # ""
           THEN /\ pc' = "raised"
                /\ exc' = r
                /\ UNCHANGED flags
           ELSE /\ pc' = "run"
                /\ flags' = r.val
                /\ UNCHANGED exc
    /\ trace' = Append(trace, Event("_get_python_flags", idx, <<>>))
    /\ UNCHANGED <<options, env, python_version, python_executable, uvx_options, idx,
                   checker, args, code, ret, codes, unit>>

\* mutant: the trailing arguments are put before the Python flags
RunCheckerArgsBeforeFlags ==
    /\ pc = "run"
    /\ LET argv == args \o options.args \o flags
       IN  trace' = trace \o <<Event("_run_checker", idx, argv)>>
                    \o (IF options.dry_run THEN <<>>
                        ELSE <<Event("subprocess.call", idx, argv)>>)
    /\ pc' = "called"
    /\ UNCHANGED <<options, env, python_version, python_executable, uvx_options, idx,
                   checker, args, flags, code, ret, exc, codes, unit>>

\* mutant: the dry-run test of _run_checker is dropped, the process is spawned
RunCheckerIgnoringDryRun ==
    /\ pc = "run"
    /\ LET argv == args \o flags \o options.args
       IN  trace' = trace \o <<Event("_run_checker", idx, argv),
                               Event("subprocess.call", idx, argv)>>
    /\ pc' = "called"
    /\ UNCHANGED <<options, env, python_version, python_executable, uvx_options, idx,
                   checker, args, flags, code, ret, exc, codes, unit>>

\* main, lines 411-416 and _run_checker, lines 200-208: the executor is
\* entered with argv = parsed argv, flags, trailing arguments; unless this is
\* a dry run it spawns the process (subprocess.call) and blocks
MainRunChecker ==
    /\ pc = "run"
    /\ LET argv == args \o flags \o options.args
       IN  trace' = trace \o <<Event("_run_checker", idx, argv)>>
                    \o (IF options.dry_run THEN <<>>
                        ELSE <<Event("subprocess.call", idx, argv)>>)
    /\ pc' = "called"
    /\ UNCHANGED <<options, env, python_version, python_executable, uvx_options, idx,
                   checker, args, flags, code, ret, exc, codes, unit>>

\* mutant: the fail-fast test is dropped, every code is added up
RunReturnNoFailFast ==
    /\ pc = "called"
    /\ \E returncode \in (IF options.dry_run THEN {0} ELSE ExitCodes) :
          /\ codes' = Append(codes, returncode)
          /\ code' = code + returncode
          /\ idx' = idx + 1
          /\ pc' = "loop"
          /\ UNCHANGED ret
    /\ UNCHANGED <<options, env, python_version, python_executable, uvx_options,
                   checker, args, flags, exc, trace, unit>>

\* mutant: failures are counted instead of their codes being added
RunReturnCountFailures ==
    /\ pc = "called"
    /\ \E returncode \in (IF options.dry_run THEN {0} ELSE ExitCodes) :
          /\ codes' = Append(codes, returncode)
          /\ IF options.fail_fast /\ returncode # 0
             THEN /\ ret' = Some(returncode)
                  /\ pc' = "done"
                  /\ UNCHANGED <<code, idx>>
             ELSE /\ code' = code + (IF returncode # 0 THEN 1 ELSE 0)
                  /\ idx' = idx + 1
                  /\ pc' = "loop"
                  /\ UNCHANGED ret
    /\ UNCHANGED <<options, env, python_version, python_executable, uvx_options,
                   checker, args, flags, exc, trace, unit>>

\* _run_checker, lines 204-213, and main, lines 417-420: the executor
\* returns (0 in a dry run, the child's exit code otherwise); fail-fast
\* returns the first nonzero code, otherwise the code is added up
MainRunReturn ==
    /\ pc = "called"
    /\ \E returncode \in (IF options.dry_run THEN {0} ELSE ExitCodes) :
          /\ codes' = Append(codes, returncode)
          /\ IF options.fail_fast /\ returncode # 0
             THEN /\ ret' = Some(returncode)
                  /\ pc' = "done"
                  /\ UNCHANGED <<code, idx>>
             ELSE /\ code' = code + returncode
                  /\ idx' = idx + 1
                  /\ pc' = "loop"
                  /\ UNCHANGED ret
    /\ UNCHANGED <<options, env, python_version, python_executable, uvx_options,
                   checker, args, flags, exc, trace, unit>>

\* main, line 422: the loop is exhausted
MainReturn ==
    /\ pc = "loop"
    /\ idx > Len(options.checkers)
    /\ ret' = Some(IF options.allow_errors THEN 0 ELSE code)
    /\ pc' = "done"
    /\ UNCHANGED <<options, env, python_version, python_executable, uvx_options, idx,
                   checker, args, flags, code, exc, trace, codes, unit>>

----------------------------------------------------------------------------
(* Inputs *)

\* most checker commands of one run
MaxCheckers == 3

\* most tokens after the first one in a command handed to _parse_command alone
MaxArgs == 3

RECURSIVE Join(_)
\* the tokens of a command line, separated by single blanks
Join(toks) ==
    IF toks = <<>> THEN <<>>
    ELSE IF Len(toks) = 1 THEN Head(toks)
    ELSE Head(toks) \o <<" ">> \o Join(Tail(toks))

\* a POSIX host: mypy and python are on PATH, ty is installed in the home
\* directory only, /work/.venv is a virtual environment
PosixEnv ==
    [VIRTUAL_ENV    |-> <<>>,
     CONDA_PREFIX   |-> <<>>,
     win            |-> FALSE,
     cwd            |-> <<"/", "work">>,
     home           |-> <<"/", "home", "/", "user">>,
     path_dir       |-> <<"/", "usr", "/", "bin">>,
     executables    |-> {<<"/", "usr", "/", "bin", "/", "mypy">>,
                         <<"/", "usr", "/", "bin", "/", "python">>,
                         <<"/", "home", "/", "user", "/", "ty">>,
                         <<"/", "work", "/", ".venv", "/", "bin", "/", "python">>},
     files          |-> {<<"/", "usr", "/", "bin", "/", "mypy">>,
                         <<"/", "usr", "/", "bin", "/", "python">>,
                         <<"/", "home", "/", "user", "/", "ty">>,
                         <<"/", "work", "/", ".venv", "/", "bin", "/", "python">>},
     dirs           |-> {<<"/", "work", "/", ".venv">>},
     sys_executable |-> <<"/", "usr", "/", "bin", "/", "python">>,
     sys_version    |-> [major |-> "3", minor |-> "12"],
     exe_version    |-> <<"3", ".", "11">>]

\* how the Python target is asked for: inferred, suppressed, version only
MainTargets ==
    {[python_version |-> None, python_executable |-> None,
      no_python_version |-> FALSE, no_python_executable |-> FALSE,
      venv |-> None, infer_venv |-> FALSE],
     [python_version |-> None, python_executable |-> None,
      no_python_version |-> TRUE, no_python_executable |-> TRUE,
      venv |-> None, infer_venv |-> FALSE],
     [python_version |-> Some(<<"3", ".", "8">>), python_executable |-> None,
      no_python_version |-> FALSE, no_python_executable |-> TRUE,
      venv |-> None, infer_venv |-> FALSE]}

\* --check values of a run: a plain checker, one needing "check" with
\* launcher arguments, an identity outside the flag table, and a command that
\* is no requirement specifier
MainCommands ==
    {<<"mypy">>,
     Join(<< <<"ty">>, <<"-a">>, <<"--">>, <<"--reinstall">> >>),
     <<"pylint">>,
     <<"-bad">>}

NoUnit == [fn |-> "", arg |-> <<>>, res |-> None]

MainOptions ==
    {[version |-> v, checkers |-> cs,
      python_version |-> t.python_version, python_executable |-> t.python_executable,
      no_python_version |-> t.no_python_version,
      no_python_executable |-> t.no_python_executable,
      venv |-> t.venv, infer_venv |-> t.infer_venv,
      constraints |-> << <<"reqs.txt">> >>,
      allow_errors |-> ae, fail_fast |-> ff, dry_run |-> dr, no_uvx |-> nu,
      uvx_options |-> <<"--verbose">>, uvx_delimiter |-> <<"--">>,
      args |-> << <<"src">> >>] :
        v \in BOOLEAN, cs \in SeqsUpTo(MainCommands, MaxCheckers), t \in MainTargets,
        ae \in BOOLEAN, ff \in BOOLEAN, dr \in BOOLEAN, nu \in BOOLEAN}

\* main() before its first statement: locals are unset
MainEntry ==
    /\ pc = "start"
    /\ python_version = None
    /\ python_executable = None
    /\ uvx_options = <<>>
    /\ idx = 0
    /\ checker = <<>>
    /\ args = <<>>
    /\ flags = <<>>
    /\ code = 0
    /\ ret = None
    /\ exc = Ok(<<>>)
    /\ trace = <<>>
    /\ codes = <<>>

Init ==
    /\ options \in MainOptions
    /\ env = PosixEnv
    /\ MainEntry
    /\ unit = NoUnit

Next ==
    \/ MainStart
    \/ MainResolve
    \/ MainParse
    \/ MainFlags
    \/ MainRunChecker
    \/ MainRunReturn
    \/ MainReturn

Spec == Init /\ [][Next]_vars

----------------------------------------------------------------------------
(* Properties of the dispatcher *)

\* the calls of one operation, in the order they were made
Calls(op) == SelectSeq(trace, LAMBDA ev : ev.op = op)

RECURSIVE SumSeq(_)
SumSeq(q) == IF q = <<>> THEN 0 ELSE Head(q) + SumSeq(Tail(q))

\* main got past the --version and empty-list exits
Dispatching == ~options.version /\ options.checkers # <<>>

\* the k-th call of the executor is for the k-th command submitted
InSubmissionOrder ==
    LET runs == Calls("_run_checker")
    IN  \A n \in 1..Len(runs) : runs[n].k = n

\* C1: with --fail-fast, checkers are executed in submission order up to and
\* including the first one whose exit code is nonzero; main returns exactly
\* that code (whatever --allow-errors says) and the executor is not entered
\* for any later checker.
C1_FailFastStopsAtFirstFailure ==
    options.fail_fast =>
        /\ InSubmissionOrder
        /\ \A n \in 1..(Len(codes) - 1) : codes[n] = 0
        /\ (codes # <<>> /\ codes[Len(codes)] # 0) =>
               /\ pc = "done"
               /\ ret = Some(codes[Len(codes)])
               /\ Len(Calls("_run_checker")) = Len(codes)
        /\ (pc = "done" /\ Dispatching /\ (codes = <<>> \/ codes[Len(codes)] = 0)) =>
               /\ Len(codes) = Len(options.checkers)
               /\ ret = Some(0)

\* C1 witness: the second of three checkers failed and the third was never run
C1_Witness ==
    /\ options.fail_fast
    /\ pc = "done"
    /\ Len(options.checkers) = 3
    /\ Len(codes) = 2 /\ codes[1] = 0 /\ codes[2] # 0
    /\ Len(Calls("_run_checker")) = 2
    /\ ret = Some(codes[2])

\* C2: without --fail-fast the executor is entered exactly once per checker,
\* one call at a time (a call is only made when every earlier one has
\* returned), in submission order, whatever the earlier exit codes were; and
\* without --allow-errors the value returned is the sum of all exit codes.
C2_RunsAllAndSums ==
    ~options.fail_fast =>
        /\ InSubmissionOrder
        /\ Len(Calls("_run_checker")) = Len(codes) + (IF pc = "called" THEN 1 ELSE 0)
        /\ ~options.dry_run =>
               Len(Calls("subprocess.call")) = Len(Calls("_run_checker"))
        /\ (pc = "done" /\ Dispatching) =>
               /\ Len(Calls("_run_checker")) = Len(options.checkers)
               /\ Len(codes) = Len(options.checkers)
               /\ ~options.allow_errors => ret = Some(SumSeq(codes))

\* C2 witness: codes 0, 2, 3 give 5
C2_Witness ==
    /\ ~options.fail_fast /\ ~options.allow_errors
    /\ pc = "done"
    /\ codes = <<0, 2, 3>>
    /\ Len(Calls("subprocess.call")) = 3
    /\ ret = Some(5)

\* C3 (as claimed): whenever --allow-errors is set and at least one checker
\* is configured, the value main returns is 0, for either value of
\* --fail-fast.
C3_AllowErrorsReturnsZero ==
    (options.allow_errors /\ options.checkers # <<>> /\ pc = "done") => ret = Some(0)

\* the dispatcher's calls (parse, flags, executor), in order
Pipeline ==
    SelectSeq(trace, LAMBDA ev : ev.op \in {"_parse_command", "_get_python_flags",
                                           "_run_checker"})

\* C4: in a dry run the process primitive is never invoked, every checker's
\* result is 0 so a run that dispatches its checkers returns 0, and each
\* checker is still parsed and has its flags computed, in submission order,
\* before its (skipped) execution; so main only returns when every command
\* parses and every flag computation succeeds.
C4_DryRun ==
    options.dry_run =>
        /\ Calls("subprocess.call") = <<>>
        /\ \A n \in 1..Len(codes) : codes[n] = 0
        /\ LET calls == Pipeline
           IN  \A n \in 1..Len(calls) :
                   /\ calls[n].k = ((n - 1) \div 3) + 1
                   /\ calls[n].op = CASE n % 3 = 1 -> "_parse_command"
                                      [] n % 3 = 2 -> "_get_python_flags"
                                      [] OTHER     -> "_run_checker"
        /\ (pc = "done" /\ Dispatching) =>
               /\ ret = Some(0)
               /\ Len(Pipeline) = 3 * Len(options.checkers)
               /\ \A n \in 1..Len(options.checkers) :
                      LET r == _parse_command(options.checkers[n], options.no_uvx,
                                              options.uvx_delimiter, uvx_options, env)
                      IN  /\ r.exc = ""
                          /\ _get_python_flags(r.val.checker, python_version,
                                               python_executable).exc = ""
        /\ pc = "raised" => exc.exc # ""

\* C4 witness: three checkers dry-run to the end
C4_Witness ==
    /\ options.dry_run
    /\ pc = "done"
    /\ Len(options.checkers) = 3
    /\ codes = <<0, 0, 0>>
    /\ Len(Calls("_get_python_flags")) = 3
    /\ ret = Some(0)

\* a dry run in which a later command fails to parse after an earlier checker
\* was dry-run
C4_DryRunSurfacesFailure ==
    /\ options.dry_run
    /\ pc = "raised"
    /\ exc.exc = "InvalidRequirement"
    /\ codes = <<0>>

----------------------------------------------------------------------------
(* Single calls of the pure functions *)

\* main is not running
MainIdle ==
    /\ options = <<>>
    /\ env = PosixEnv
    /\ pc = "idle"
    /\ python_version = None
    /\ python_executable = None
    /\ uvx_options = <<>>
    /\ idx = 0
    /\ checker = <<>>
    /\ args = <<>>
    /\ flags = <<>>
    /\ code = 0
    /\ ret = None
    /\ exc = Ok(<<>>)
    /\ trace = <<>>
    /\ codes = <<>>

KnownCheckers == {<<"mypy">>, <<"pyright">>, <<"basedpyright">>, <<"ty">>, <<"pyrefly">>}

FlagCheckers == KnownCheckers \cup {<<"pylint">>, <<"other">>}

\* absent, empty and ordinary values
FlagVersions == {None, Some(<<>>), Some(<<"3", ".", "8">>)}

FlagExecutables == {None, Some(<<>>), Some(<<"/", "path", "/", "to", "/", "python">>)}

InitFlags ==
    /\ unit \in {[fn |-> "_get_python_flags",
                  arg |-> [checker |-> c, version |-> v, executable |-> x],
                  res |-> None] :
                    c \in FlagCheckers, v \in FlagVersions, x \in FlagExecutables}
    /\ MainIdle

CallGetPythonFlags ==
    /\ unit.fn = "_get_python_flags"
    /\ unit.res = None
    /\ unit' = [unit EXCEPT !.res = Some(_get_python_flags(unit.arg.checker,
                                                             unit.arg.version,
                                                             unit.arg.executable))]
    /\ UNCHANGED mainVars

NextFlags == CallGetPythonFlags

SpecFlags == InitFlags /\ [][NextFlags]_vars

\* first tokens of a command: names, a name with extras, a pinned name,
\* paths, and a token that is no requirement
ParseFirstTokens ==
    {<<"mypy">>, <<"ty">>, <<"pyrefly">>,
     <<"mypy", "[", "faster-cache", "]">>,
     <<"ty", "==", "1.18">>,
     <<"/", "path", "/", "to", "/", "mypy">>,
     <<"~", "/", "ty">>,
     <<"-bad">>}

ArgTokens == {<<"check">>, <<"--">>, <<";;">>, <<"-a">>}

Delimiters == {<<"--">>, <<";;">>}

LauncherOptions == {<<>>, << <<"--verbose">> >>}

ConstraintLists ==
    {<<>>, << <<"reqs.txt">> >>, << <<"reqs.txt">>, <<"dev.txt">> >>}

\* command lines given with the tokens a shell would read from them (None
\* when the line cannot be tokenized): token lists joined by blanks, and
\* lines with quoting, repeated blanks and nothing at all
CommandLines ==
    {[command |-> Join(<<f>> \o r), tokens |-> Some(<<f>> \o r)] :
        f \in ParseFirstTokens, r \in SeqsUpTo(ArgTokens, MaxArgs)}
    \cup
    {[command |-> <<>>, tokens |-> Some(<<>>)],
     [command |-> <<"ty", " ", " ", "-a">>, tokens |-> Some(<< <<"ty">>, <<"-a">> >>)],
     [command |-> <<"'", "ty", "'", " ", "'", "-a", " ", "check", "'">>,
      tokens |-> Some(<< <<"ty">>, <<"-a", " ", "check">> >>)],
     [command |-> <<"mypy", " ", "'", "'">>, tokens |-> Some(<< <<"mypy">>, <<>> >>)],
     [command |-> <<"mypy", " ", "'", "-a">>, tokens |-> None]}

\* one call of a command parser, before it is made
ParseCall(f, c, nu, d, lo, cl) ==
    [fn |-> f,
     arg |-> [command |-> c.command, tokens |-> c.tokens, no_uvx |-> nu,
              uvx_delimiter |-> d, uvx_options |-> Join(lo), launcher |-> lo,
              constraints |-> cl],
     res |-> None]

InjectArgs ==
    {[fn |-> "_maybe_add_check_argument",
      arg |-> [checker |-> c, args |-> a],
      res |-> None] :
        c \in {<<"mypy">>, <<"pyright">>, <<"ty">>, <<"pyrefly">>},
        a \in SeqsUpTo(ArgTokens, MaxArgs)}

InitParse ==
    /\ \/ \E c \in CommandLines, nu \in BOOLEAN, d \in Delimiters,
              lo \in LauncherOptions, cl \in ConstraintLists :
                unit = ParseCall("_parse_command", c, nu, d, lo, cl)
       \/ \E c \in CommandLines, d \in Delimiters,
              lo \in LauncherOptions, cl \in ConstraintLists :
                unit = ParseCall("cli._parse_uvx_command", c, FALSE, d, lo, cl)
       \/ unit \in InjectArgs
    /\ MainIdle

\* main, lines 397-409, for one command: the launcher options are assembled
\* and the command is parsed
CallParseCommand ==
    /\ unit.fn = "_parse_command"
    /\ unit.res = None
    /\ LET uvx == main_uvx_options(unit.arg)
       IN  unit' = [unit EXCEPT !.res =
                       Some(IF uvx.exc # "" THEN uvx
                            ELSE _parse_command(unit.arg.command, unit.arg.no_uvx,
                                                unit.arg.uvx_delimiter, uvx.val, env))]
    /\ UNCHANGED mainVars

\* cli.main, lines 335-341, for one command in launcher mode
CallCliParseUvxCommand ==
    /\ unit.fn = "cli._parse_uvx_command"
    /\ unit.res = None
    /\ unit' = [unit EXCEPT !.res =
                   Some(cli_parse_uvx_command(unit.arg.command, unit.arg.constraints,
                                              unit.arg.uvx_delimiter,
                                              unit.arg.uvx_options))]
    /\ UNCHANGED mainVars

\* _maybe_add_check_argument applied to the arguments, and again to its result
CallMaybeAddCheckArgument ==
    /\ unit.fn = "_maybe_add_check_argument"
    /\ unit.res = None
    /\ LET once == _maybe_add_check_argument(unit.arg.checker, unit.arg.args)
       IN  unit' = [unit EXCEPT !.res =
                       Some([once |-> once,
                             twice |-> _maybe_add_check_argument(unit.arg.checker, once)])]
    /\ UNCHANGED mainVars

NextParse ==
    \/ CallParseCommand
    \/ CallCliParseUvxCommand
    \/ CallMaybeAddCheckArgument

SpecParse == InitParse /\ [][NextParse]_vars

----------------------------------------------------------------------------
(* Properties of the flag mapper *)

\* a finished call of _get_python_flags
FlagsDone == unit.fn = "_get_python_flags" /\ unit.res # None

\* the flag names of section 4.2, per identity
VersionFlagName(c) ==
    CASE c = <<"pyright">>      -> "pythonversion"
      [] c = <<"basedpyright">> -> "pythonversion"
      [] c = <<"ty">>           -> "python-version"
      [] c = <<"pyrefly">>      -> "python-version"
      [] c = <<"mypy">>         -> "python-version"

ExecutableFlagName(c) ==
    CASE c = <<"pyright">>      -> "pythonpath"
      [] c = <<"basedpyright">> -> "pythonpath"
      [] c = <<"ty">>           -> "python"
      [] c = <<"pyrefly">>      -> "python-interpreter-path"
      [] c = <<"mypy">>         -> "python-executable"

\* C5: for the five identities of the table and every (version, executable),
\* each possibly absent, the result is the version flag if the version is
\* present, then the executable flag if the executable is present, each one
\* token --name=value: [] when both are absent, version first when both are
\* present.
C5_FlagTable ==
    (FlagsDone /\ unit.arg.checker \in KnownCheckers) =>
        LET c == unit.arg.checker
            v == unit.arg.version
            x == unit.arg.executable
            r == unit.res[1]
        IN  /\ r.exc = ""
            /\ r.val = (IF v = None THEN <<>>
                        ELSE << <<"--", VersionFlagName(c), "=">> \o v[1] >>)
                       \o (IF x = None THEN <<>>
                           ELSE << <<"--", ExecutableFlagName(c), "=">> \o x[1] >>)
            /\ Len(r.val) = (IF v = None THEN 0 ELSE 1) + (IF x = None THEN 0 ELSE 1)
            /\ (v = None /\ x = None) => r.val = <<>>

\* C5 witness: ty with both values present
C5_Witness ==
    /\ FlagsDone
    /\ unit.arg.checker = <<"ty">>
    /\ unit.res[1].val = << <<"--", "python-version", "=", "3", ".", "8">>,
                            <<"--", "python", "=", "/", "path", "/", "to", "/", "python">> >>

\* C6 (as claimed): for an identity outside the table, _get_python_flags
\* returns a list of flags without raising, whether the version and the
\* executable are present or absent.
C6_UnknownIdentityNeverRaises ==
    (FlagsDone /\ unit.arg.checker \notin KnownCheckers) => unit.res[1].exc = ""

\* C7 (as claimed): for an identity outside the table and any version and
\* executable, _get_python_flags raises ValueError("Unknown checker ...").
C7_UnknownIdentityAlwaysRaises ==
    (FlagsDone /\ unit.arg.checker \notin KnownCheckers) =>
        /\ unit.res[1].exc = "ValueError"
        /\ unit.res[1].msg # <<>>
        /\ unit.res[1].msg[1] = "Unknown checker "

\* C7 (amended): for an identity outside the table, _get_python_flags raises
\* ValueError("Unknown checker <identity>") exactly when the executable is
\* present (not None; the empty string is present); when the executable is
\* absent it returns [] or the single --python-version flag.
C7_UnknownIdentityRaisesIffExecutable ==
    (FlagsDone /\ unit.arg.checker \notin KnownCheckers) =>
        LET r == unit.res[1]
            v == unit.arg.version
        IN  IF unit.arg.executable # None
            THEN /\ r.exc = "ValueError"
                 /\ r.msg = <<"Unknown checker ">> \o unit.arg.checker
            ELSE /\ r.exc = ""
                 /\ r.val = (IF v = None THEN <<>>
                             ELSE << <<"--", "python-version", "=">> \o v[1] >>)

\* C7 witness: the call _get_python_flags("other", "", "") raised
C7_Witness ==
    /\ FlagsDone
    /\ unit.arg = [checker |-> <<"other">>, version |-> Some(<<>>),
                   executable |-> Some(<<>>)]
    /\ unit.res[1].exc = "ValueError"

----------------------------------------------------------------------------
(* Properties of the command parser *)

\* a finished launcher-mode parse of a command line that has tokens
LauncherParsed(fn) ==
    /\ unit.fn = fn
    /\ unit.res # None
    /\ ~unit.arg.no_uvx
    /\ unit.res[1].exc = ""

\* the tokens of the command line after the first one
RestTokens == Tail(unit.arg.tokens[1])

FirstToken == Head(unit.arg.tokens[1])

\* the 1-based positions of the delimiter among the tokens after the first
DelimiterPositions == {n \in 1..Len(RestTokens) : RestTokens[n] = unit.arg.uvx_delimiter}

\* the tokens before the first delimiter (all of them when there is none)
BeforeDelimiter ==
    IF DelimiterPositions = {} THEN RestTokens
    ELSE SubSeq(RestTokens, 1,
                (CHOOSE n \in DelimiterPositions : \A m \in DelimiterPositions : n <= m) - 1)

\* the tokens after the first delimiter (none when there is none)
AfterDelimiter ==
    IF DelimiterPositions = {} THEN <<>>
    ELSE SubSeq(RestTokens,
                (CHOOSE n \in DelimiterPositions : \A m \in DelimiterPositions : n <= m) + 1,
                Len(RestTokens))

ConstraintFlags ==
    [n \in 1..Len(unit.arg.constraints) |->
        <<"--", "constraints", "=">> \o unit.arg.constraints[n]]

\* the checker arguments with "check" put in front where the identity needs it
WithCheck(identity, a) ==
    IF identity \in {<<"ty">>, <<"pyrefly">>} /\ \A n \in 1..Len(a) : a[n] # <<"check">>
    THEN << <<"check">> >> \o a
    ELSE a

\* how often the token "check" occurs in a
CountCheck(a) == Cardinality({n \in 1..Len(a) : a[n] = <<"check">>})

\* C8 (as claimed): in launcher mode the argv is "uvx", the launcher
\* options, the after-delimiter arguments, one --constraints=<file> per
\* constraints file, the original first token, then the checker arguments
\* (with the injected check token).
C8_ConstraintsAfterLauncherArgs ==
    LauncherParsed("_parse_command") =>
        unit.res[1].val.args =
            << <<"uvx">> >> \o unit.arg.launcher \o AfterDelimiter \o ConstraintFlags
            \o <<FirstToken>> \o WithCheck(unit.res[1].val.checker, BeforeDelimiter)

\* C8 (amended): in launcher mode the argv typecheck_runner builds is "uvx",
\* the launcher options, one --constraints=<file> per constraints file in the
\* order given, the after-delimiter arguments, the original first token, then
\* the checker arguments with the injected check token; the historical
\* cli._parse_uvx_command puts the constraints after the after-delimiter
\* arguments and injects nothing.
C8_LauncherArgvOrder ==
    /\ LauncherParsed("_parse_command") =>
           unit.res[1].val.args =
               << <<"uvx">> >> \o unit.arg.launcher \o ConstraintFlags \o AfterDelimiter
               \o <<FirstToken>> \o WithCheck(unit.res[1].val.checker, BeforeDelimiter)
    /\ LauncherParsed("cli._parse_uvx_command") =>
           unit.res[1].val.args =
               << <<"uvx">> >> \o unit.arg.launcher \o AfterDelimiter \o ConstraintFlags
               \o <<FirstToken>> \o BeforeDelimiter

\* C8 witness: launcher options, two constraints files and after-delimiter
\* arguments together, for a checker that needs "check"
C8_Witness ==
    /\ LauncherParsed("_parse_command")
    /\ unit.arg.command = Join(<< <<"ty">>, <<"-a">>, <<"--">>, <<";;">> >>)
    /\ unit.arg.uvx_delimiter = <<"--">>
    /\ unit.res[1].val.args =
           << <<"uvx">>, <<"--verbose">>,
              <<"--", "constraints", "=", "reqs.txt">>,
              <<"--", "constraints", "=", "dev.txt">>,
              <<";;">>, <<"ty">>, <<"check">>, <<"-a">> >>

\* C9: in launcher mode the tokens after the first one are split at the first
\* occurrence of the configured delimiter: the argv ends with the first
\* token followed by the tokens before that occurrence (after an injected
\* "check" at most), the tokens after it (later delimiters included) stand
\* just before the first token, the delimiter itself is dropped, and
\* without a delimiter every token is a checker argument; for either
\* delimiter string.
C9_SplitAtFirstDelimiter ==
    LauncherParsed("_parse_command") =>
        LET argv == unit.res[1].val.args
            rest == RestTokens
            d    == unit.arg.uvx_delimiter
            pre  == 1 + Len(unit.arg.launcher) + Len(unit.arg.constraints)
        IN  \E p \in 1..(Len(rest) + 1) :
               /\ \A m \in 1..(p - 1) : rest[m] # d
               /\ p <= Len(rest) => rest[p] = d
               /\ \E inj \in {0, 1} :
                     /\ Len(argv) = pre + (IF p > Len(rest) THEN 0 ELSE Len(rest) - p)
                                    + 1 + inj + (p - 1)
                     \* launcher-only arguments: everything after position p
                     /\ \A m \in (p + 1)..Len(rest) : argv[pre + m - p] = rest[m]
                     \* checker arguments: everything before position p
                     /\ \A m \in 1..(p - 1) : argv[Len(argv) - (p - 1) + m] = rest[m]
                     /\ argv[Len(argv) - (p - 1) - inj] = FirstToken
                     /\ inj = 1 => argv[Len(argv) - (p - 1)] = <<"check">>

\* C9 witness: the delimiter ";;" occurs twice; the second one is a launcher
\* argument
C9_Witness ==
    /\ LauncherParsed("_parse_command")
    /\ unit.arg.uvx_delimiter = <<";;">>
    /\ unit.arg.launcher = <<>> /\ unit.arg.constraints = <<>>
    /\ unit.arg.command = Join(<< <<"mypy">>, <<"--">>, <<";;">>, <<";;">> >>)
    /\ unit.res[1].val.args = << <<"uvx">>, <<";;">>, <<"mypy">>, <<"--">> >>

\* C10: _maybe_add_check_argument returns ["check", *args] when the identity
\* is ty or pyrefly and "check" occurs nowhere in args, and args itself
\* otherwise; applied twice it gives what it gives once and it never adds a
\* second "check"; in launcher mode it acts on the before-delimiter arguments
\* only, so no token is injected among the launcher arguments.
C10_CheckInjection ==
    /\ (unit.fn = "_maybe_add_check_argument" /\ unit.res # None) =>
           LET a    == unit.arg.args
               once == unit.res[1].once
               need == unit.arg.checker \in {<<"ty">>, <<"pyrefly">>} /\ CountCheck(a) = 0
           IN  /\ need => once = << <<"check">> >> \o a
               /\ ~need => once = a
               /\ unit.res[1].twice = once
               /\ CountCheck(once) = (IF need THEN 1 ELSE CountCheck(a))
    /\ LauncherParsed("_parse_command") =>
           LET argv == unit.res[1].val.args
               tail == WithCheck(unit.res[1].val.checker, BeforeDelimiter)
               head == SubSeq(argv, 1, Len(argv) - Len(tail) - 1)
           IN  /\ SubSeq(argv, Len(argv) - Len(tail) + 1, Len(argv)) = tail
               /\ argv[Len(argv) - Len(tail)] = FirstToken
               /\ CountCheck(head) = CountCheck(AfterDelimiter)

\* C10 witness: pyrefly with "check" in last position is left alone
C10_Witness ==
    /\ unit.fn = "_maybe_add_check_argument"
    /\ unit.res # None
    /\ unit.arg = [checker |-> <<"pyrefly">>, args |-> << <<"-a">>, <<"check">> >>]
    /\ unit.res[1].once = << <<"-a">>, <<"check">> >>

----------------------------------------------------------------------------
(* Hosts and Python targets *)

\* where an interpreter can sit under the root of a virtual environment
InterpreterPaths ==
    {<<"bin", "/", "python">>, <<"bin", "/", "python.exe">>,
     <<"Scripts", "/", "python">>, <<"Scripts", "/", "python.exe">>}

\* the roots of the virtual environments of a host, .venv apart
VenvRoots ==
    {<<"/", "virtual", "/", "env">>, <<"/", "work", "/", "env">>,
     <<"/", "conda", "/", "env">>, <<"/", "work", "/", ".nox", "/", "test">>}

\* a host with the two environment variables set to the given values (empty:
\* not set), a .venv directory in the working directory or none, and the
\* given interpreter files under the root of every virtual environment
HostEnv(virtual_env, conda_prefix, dotvenv, win, interpreters) ==
    LET base  == {<<"/", "usr", "/", "bin", "/", "mypy">>,
                  <<"/", "usr", "/", "bin", "/", "python">>,
                  <<"/", "home", "/", "user", "/", "ty">>,
                  <<"/", "a", "/", "python">>}
        roots == VenvRoots \cup (IF dotvenv THEN {<<"/", "work", "/", ".venv">>} ELSE {})
        files == base \cup {r \o <<"/">> \o i : r \in roots, i \in interpreters}
    IN  [VIRTUAL_ENV    |-> virtual_env,
         CONDA_PREFIX   |-> conda_prefix,
         win            |-> win,
         cwd            |-> <<"/", "work">>,
         home           |-> <<"/", "home", "/", "user">>,
         path_dir       |-> <<"/", "usr", "/", "bin">>,
         executables    |-> files,
         files          |-> files,
         dirs           |-> roots,
         sys_executable |-> <<"/", "usr", "/", "bin", "/", "python">>,
         sys_version    |-> [major |-> "3", minor |-> "12"],
         exe_version    |-> <<"3", ".", "11">>]

\* values of VIRTUAL_ENV: not set, an absolute path, a relative path
VirtualEnvValues == {<<>>, <<"/", "virtual", "/", "env">>, <<"env">>}

\* values of CONDA_PREFIX: not set, an absolute path
CondaPrefixValues == {<<>>, <<"/", "conda", "/", "env">>}

\* hosts for single calls of the venv helpers: every set of interpreter files
VenvEnvs ==
    {HostEnv(v, c, d, w, i) :
        v \in VirtualEnvValues, c \in CondaPrefixValues, d \in BOOLEAN, w \in BOOLEAN,
        i \in SUBSET InterpreterPaths}

\* hosts for runs of main: no interpreter, the POSIX one, the Windows one
TargetEnvs ==
    {HostEnv(v, c, d, w, i) :
        v \in VirtualEnvValues, c \in CondaPrefixValues, d \in BOOLEAN, w \in BOOLEAN,
        i \in {{}, {<<"bin", "/", "python">>}, {<<"Scripts", "/", "python.exe">>}}}

\* how the Python target is asked for on the command line: every combination
\* of the six options, with an explicit executable that exists or is missing
TargetRequests ==
    [python_version       : {None, Some(<<"3", ".", "8">>)},
     python_executable    : {None, Some(<<"/", "a", "/", "python">>),
                             Some(<<"/", "no", "/", "python">>)},
     no_python_version    : BOOLEAN,
     no_python_executable : BOOLEAN,
     venv                 : {None, Some(<<".nox", "/", "test">>)},
     infer_venv           : BOOLEAN]

\* runs of one checker in direct mode
TargetOptions ==
    {[version |-> FALSE, checkers |-> << <<"mypy">> >>,
      python_version |-> t.python_version, python_executable |-> t.python_executable,
      no_python_version |-> t.no_python_version,
      no_python_executable |-> t.no_python_executable,
      venv |-> t.venv, infer_venv |-> t.infer_venv,
      constraints |-> <<>>,
      allow_errors |-> FALSE, fail_fast |-> FALSE, dry_run |-> FALSE, no_uvx |-> TRUE,
      uvx_options |-> <<>>, uvx_delimiter |-> <<"--">>,
      args |-> << <<"src">> >>] : t \in TargetRequests}

InitTarget ==
    /\ options \in TargetOptions
    /\ env \in TargetEnvs
    /\ MainEntry
    /\ unit = NoUnit

SpecTarget == InitTarget /\ [][Next]_vars

\* hosts for runs of main with a virtual environment asked for: VIRTUAL_ENV
\* set or not, .venv there or not, either platform, with the POSIX
\* interpreter or none
DiscoveryEnvs ==
    {HostEnv(v, <<>>, d, w, i) :
        v \in {<<>>, <<"/", "virtual", "/", "env">>}, d \in BOOLEAN, w \in BOOLEAN,
        i \in {{}, {<<"bin", "/", "python">>}}}

\* --check values of such a run: a checker, and a command that does not parse
DiscoveryCommands == {<<"mypy">>, <<"-bad">>}

\* the ways a virtual environment is asked for
DiscoveryRequests ==
    {[venv |-> Some(<<".nox", "/", "test">>), infer_venv |-> FALSE],
     [venv |-> Some(<<".nox", "/", "test">>), infer_venv |-> TRUE],
     [venv |-> None, infer_venv |-> TRUE]}

\* one run of main with a virtual environment asked for
DiscoveryOption(cs, t, ae, ff, dr) ==
    [version |-> FALSE, checkers |-> cs,
     python_version |-> None, python_executable |-> None,
     no_python_version |-> FALSE, no_python_executable |-> FALSE,
     venv |-> t.venv, infer_venv |-> t.infer_venv,
     constraints |-> <<>>,
     allow_errors |-> ae, fail_fast |-> ff, dry_run |-> dr, no_uvx |-> FALSE,
     uvx_options |-> <<>>, uvx_delimiter |-> <<"--">>,
     args |-> << <<"src">> >>]

InitDiscovery ==
    /\ \E cs \in SeqsUpTo(DiscoveryCommands, MaxCheckers), t \in DiscoveryRequests,
          ae \in BOOLEAN, ff \in BOOLEAN, dr \in BOOLEAN :
            options = DiscoveryOption(cs, t, ae, ff, dr)
    /\ env \in DiscoveryEnvs
    /\ MainEntry
    /\ unit = NoUnit

SpecDiscovery == InitDiscovery /\ [][Next]_vars

\* locations handed to _get_python_executable_from_venv: relative, absolute,
\* and one that is no virtual environment
VenvLocations ==
    {<<".venv">>, <<"/", "virtual", "/", "env">>, <<"/", "tmp">>}

InitVenv ==
    /\ unit \in {[fn |-> "_infer_venv_location", arg |-> <<>>, res |-> None]}
                \cup {[fn |-> "_get_python_executable_from_venv",
                       arg |-> [location |-> l], res |-> None] : l \in VenvLocations}
    /\ env \in VenvEnvs
    /\ options = <<>>
    /\ pc = "idle"
    /\ python_version = None
    /\ python_executable = None
    /\ uvx_options = <<>>
    /\ idx = 0
    /\ checker = <<>>
    /\ args = <<>>
    /\ flags = <<>>
    /\ code = 0
    /\ ret = None
    /\ exc = Ok(<<>>)
    /\ trace = <<>>
    /\ codes = <<>>

CallInferVenvLocation ==
    /\ unit.fn = "_infer_venv_location"
    /\ unit.res = None
    /\ unit' = [unit EXCEPT !.res = Some(_infer_venv_location(env))]
    /\ UNCHANGED mainVars

CallGetPythonExecutableFromVenv ==
    /\ unit.fn = "_get_python_executable_from_venv"
    /\ unit.res = None
    /\ unit' = [unit EXCEPT !.res = Some(_get_python_executable_from_venv(
                                              unit.arg.location, env))]
    /\ UNCHANGED mainVars

NextVenv ==
    \/ CallInferVenvLocation
    \/ CallGetPythonExecutableFromVenv

SpecVenv == InitVenv /\ [][NextVenv]_vars

----------------------------------------------------------------------------
(* Properties of the command parser: identity and direct mode *)

\* a finished _parse_command call on a command line that has a first token
ParsedTokens ==
    /\ unit.fn = "_parse_command"
    /\ unit.res # None
    /\ unit.arg.tokens # None
    /\ unit.arg.tokens[1] # <<>>

\* the chunks of a path after its last separator
LastComponent(p) ==
    IF \E n \in 1..Len(p) : p[n] = "/"
    THEN SubSeq(p, (CHOOSE n \in 1..Len(p) : p[n] = "/" /\ \A m \in (n + 1)..Len(p) : p[m] # "/") + 1,
                Len(p))
    ELSE p

\* a name without its [extras] and version specifier
WithoutAnnotation(t) ==
    IF \E n \in 1..Len(t) : t[n] \in {"[", "=="}
    THEN SubSeq(t, 1, (CHOOSE n \in 1..Len(t) : t[n] \in {"[", "=="}
                                 /\ \A m \in 1..(n - 1) : t[m] \notin {"[", "=="}) - 1)
    ELSE t

\* the first token with "~" replaced by the home directory
ExpandedFirst ==
    IF FirstToken[1] = "~" THEN env.home \o Tail(FirstToken) ELSE FirstToken

HasDirectory(p) == \E n \in 1..Len(p) : p[n] = "/"

\* C11 (as claimed): in both launch modes the identity is the first token
\* with any extras/version annotation removed and any path prefix removed.
C11_IdentityIsBareNameInBothModes ==
    ParsedTokens =>
        /\ unit.res[1].exc = ""
        /\ unit.res[1].val.checker = WithoutAnnotation(LastComponent(FirstToken))

\* C11 (amended): in launcher mode the identity is the requirement name of
\* the first token (extras and version specifier removed), and a first token
\* that is no requirement specifier, such as one with a path prefix, raises
\* InvalidRequirement; in direct mode the identity is the base name of the
\* user-expanded first token (path prefix removed, any extras or version
\* annotation kept).
C11_IdentityPerMode ==
    ParsedTokens =>
        LET r == unit.res[1]
        IN  IF unit.arg.no_uvx
            THEN /\ r.exc = ""
                 /\ r.val.checker = LastComponent(ExpandedFirst)
            ELSE IF HasDirectory(FirstToken) \/ FirstToken[1] \in {"~", "-bad"}
            THEN r.exc = "InvalidRequirement"
            ELSE /\ r.exc = ""
                 /\ r.val.checker = WithoutAnnotation(FirstToken)
                 /\ Len(r.val.checker) = 1

\* C11 witness: "mypy[faster-cache] ..." in launcher mode has identity mypy
C11_Witness ==
    /\ ParsedTokens
    /\ ~unit.arg.no_uvx
    /\ FirstToken = <<"mypy", "[", "faster-cache", "]">>
    /\ unit.res[1].val.checker = <<"mypy">>

\* what the PATH lookup of direct mode yields for the expanded first token:
\* a bare name found in the PATH directory becomes that file, anything else
\* stays as it is
DirectProgram ==
    IF ~HasDirectory(ExpandedFirst)
       /\ (env.path_dir \o <<"/">> \o ExpandedFirst) \in env.executables
    THEN env.path_dir \o <<"/">> \o ExpandedFirst
    ELSE ExpandedFirst

\* C12: in direct mode the identity is the base name of the user-expanded
\* first token and argv is the looked-up program (else the expanded token)
\* followed by the remaining tokens in order, with "check" in front for
\* ty/pyrefly when absent; argv[0] is a function of the first token and the
\* lookup only, and the delimiter, launcher options and constraints have no
\* effect.
C12_DirectMode ==
    (ParsedTokens /\ unit.arg.no_uvx) =>
        LET r == unit.res[1]
        IN  /\ r.exc = ""
            /\ r.val.checker = LastComponent(ExpandedFirst)
            /\ r.val.args = <<DirectProgram>> \o WithCheck(r.val.checker, RestTokens)
            /\ <<"uvx">> \notin Range(SubSeq(r.val.args, 1, Len(r.val.args) - Len(RestTokens)))
            /\ CountCheck(r.val.args) <= CountCheck(RestTokens) + 1

\* C12 witness: "~/ty -- -a" with launcher options and constraints given
C12_Witness ==
    /\ ParsedTokens
    /\ unit.arg.no_uvx
    /\ unit.arg.launcher # <<>> /\ unit.arg.constraints # <<>>
    /\ unit.arg.uvx_delimiter = <<"--">>
    /\ unit.arg.tokens[1] = << <<"~", "/", "ty">>, <<"--">>, <<"-a">> >>
    /\ unit.res[1].val.args = << <<"/", "home", "/", "user", "/", "ty">>,
                                 <<"check">>, <<"--">>, <<"-a">> >>

----------------------------------------------------------------------------
(* Properties of the dispatcher: argument assembly, parse failures, exit status *)

\* the Python target as a function of the options and the host alone
TargetOf ==
    LET exe == _get_python_executable(options.python_executable, options.venv,
                                      options.infer_venv, env)
    IN  _get_python_values(options.python_version, exe.val, options.no_python_version,
                           options.no_python_executable, env).val

\* the n-th command, parsed on its own
ParsedAlone(n) ==
    _parse_command(options.checkers[n], options.no_uvx, options.uvx_delimiter,
                   main_uvx_options(options).val, env)

\* the argument vector of the n-th checker as a function of the options and
\* the host alone
ExpectedArgv(n) ==
    LET parsed == ParsedAlone(n).val
        target == TargetOf
    IN  parsed.args
        \o _get_python_flags(parsed.checker, target.version, target.executable).val
        \o options.args

\* C13: the argv handed to the executor for a checker is its parsed argv,
\* then the flags for (identity, version, executable), then the trailing
\* positional arguments; the target pair is resolved once, before the first
\* command is parsed, and is the same for every checker; no argv depends on
\* the exit codes of earlier checkers.  Stated where the executor has just
\* been entered for checker idx: its argv is a function of the options and
\* the host, whatever the exit codes so far.
C13_ArgvAssembly ==
    /\ pc = "called" =>
          LET runs == Calls("_run_checker")
              last == runs[Len(runs)]
              target == TargetOf
          IN  /\ Len(runs) = idx
              /\ last.k = idx
              /\ last.argv = ExpectedArgv(idx)
              /\ \A c \in Range(Calls("subprocess.call")) : c.k = idx => c.argv = last.argv
              /\ python_version = target.version
              /\ python_executable = target.executable
    /\ \A i \in 1..Len(trace) :
          /\ trace[i].op = "resolve" => i = 1
          /\ trace[i].op = "_parse_command" => trace[1].op = "resolve"

\* C13 witness: the second checker is handed its argv, with both flags in it,
\* after the first one failed
C13_Witness ==
    /\ pc = "called"
    /\ idx = 2
    /\ codes = <<3>>
    /\ python_version # None /\ python_executable # None
    /\ Len(flags) = 2
    /\ Len(Calls("_run_checker")) = 2
    /\ Calls("_run_checker")[1].argv # Calls("_run_checker")[2].argv

\* the n-th command is no requirement specifier and the launcher is used
Malformed(n) ==
    /\ ~options.no_uvx
    /\ ParsedAlone(n).exc = "InvalidRequirement"

\* C17: a malformed requirement specifier at position k in launcher mode
\* never reaches the executor; every checker before k has been executed once,
\* with the argv it has without the malformed command and an exit code of its
\* own; the failure leaves main as an exception of that iteration, main
\* returns no exit status, --allow-errors or not.  Stated where the parse of
\* command k is the last thing main has done.
C17_MalformedRequirementPropagates ==
    (trace # <<>> /\ trace[Len(trace)].op = "_parse_command"
        /\ Malformed(trace[Len(trace)].k)) =>
            LET k == trace[Len(trace)].k
            IN  /\ pc = "raised"
                /\ exc.exc = "InvalidRequirement"
                /\ ret = None
                /\ \A c \in Range(Calls("_run_checker")) \cup Range(Calls("subprocess.call")) :
                       c.k < k
                /\ Len(Calls("_run_checker")) = k - 1
                /\ \A n \in 1..(k - 1) :
                       /\ Calls("_run_checker")[n].k = n
                       /\ Calls("_run_checker")[n].argv = ExpectedArgv(n)
                /\ Len(codes) = k - 1
                /\ \A n \in 1..(k - 1) :
                       /\ codes[n] \in (IF options.dry_run THEN {0} ELSE ExitCodes)
                       /\ options.fail_fast => codes[n] = 0

\* C17 witness: --allow-errors is set, the first checker failed and the
\* second command is no requirement specifier
C17_Witness ==
    /\ pc = "raised"
    /\ exc.exc = "InvalidRequirement"
    /\ options.allow_errors
    /\ ~options.no_uvx
    /\ idx = 2
    /\ codes = <<3>>
    /\ ret = None
    /\ Len(Calls("subprocess.call")) = 1

\* C18 (as claimed): main returns 2 if and only if no checker command was
\* given (and --version was not asked for), and then before the target is
\* resolved and without a call of the executor.
C18_TwoReservedForNoCheckers ==
    pc = "done" =>
        /\ (ret = Some(2)) <=> (options.checkers = <<>> /\ ~options.version)
        /\ ret = Some(2) => trace = <<Event("print_help", 0, <<>>)>>

\* C18 (amended): without checker commands (and without --version) main
\* returns 2 before the target is resolved and without a call of the
\* executor, and --version returns 0 first; with checker commands main
\* returns 2 as well when the exit codes say so: a failing checker's code 2
\* under fail-fast, or codes that add up to 2.
C18_TwoWithoutCheckers ==
    pc = "done" =>
        /\ options.version => (ret = Some(0) /\ trace = <<Event("print", 0, <<>>)>>)
        /\ (options.checkers = <<>> /\ ~options.version) =>
              /\ ret = Some(2)
              /\ trace = <<Event("print_help", 0, <<>>)>>
              /\ python_version = None /\ python_executable = None
        /\ (ret = Some(2) /\ options.checkers # <<>> /\ ~options.version) =>
              /\ codes # <<>>
              /\ ~options.allow_errors \/ options.fail_fast
              /\ IF options.fail_fast /\ codes[Len(codes)] # 0
                 THEN codes[Len(codes)] = 2
                 ELSE SumSeq(codes) = 2

\* C18 witness: no checker command, main has returned 2 after printing help
C18_Witness ==
    /\ pc = "done"
    /\ options.checkers = <<>>
    /\ ~options.version
    /\ ret = Some(2)
    /\ Calls("resolve") = <<>>
    /\ Calls("_run_checker") = <<>>

\* C19: without --allow-errors main returns 0 exactly when every executed
\* checker returned 0, whatever the integer exit codes are, negative ones of
\* killed processes included.
C19_ZeroIffAllSucceeded ==
    (pc = "done" /\ ~options.allow_errors /\ codes # <<>>) =>
        ((ret = Some(0)) <=> (\A n \in 1..Len(codes) : codes[n] = 0))

----------------------------------------------------------------------------
(* Properties of the Python target *)

\* a path made absolute against the working directory
AbsPath(p) == IF Head(p) = "/" THEN p ELSE env.cwd \o <<"/">> \o p

\* the location the inference is to find: VIRTUAL_ENV, else CONDA_PREFIX,
\* else the .venv directory, else nothing
InferredRoot ==
    IF env.VIRTUAL_ENV # <<>> THEN Some(AbsPath(env.VIRTUAL_ENV))
    ELSE IF env.CONDA_PREFIX # <<>> THEN Some(AbsPath(env.CONDA_PREFIX))
    ELSE IF (env.cwd \o <<"/", ".venv">>) \in env.dirs THEN Some(env.cwd \o <<"/", ".venv">>)
    ELSE None

\* main has resolved the Python target and gone on
Resolved == pc \in {"loop", "flags", "run", "called", "done"} /\ Calls("resolve") # <<>>

\* the interpreter files a virtual environment at root r can have on this host
VenvInterpreters(r) ==
    LET name == IF env.win THEN "python.exe" ELSE "python"
    IN  {r \o <<"/", "bin", "/", name>>, r \o <<"/", "Scripts", "/", name>>} \cap env.files

\* C14: the executable is the interpreter of the virtual environment when
\* --venv is given or --infer-venv is set (an explicit --venv is used without
\* probing, and the venv wins over --python-executable), otherwise the
\* explicit executable, otherwise the running interpreter unless suppressed
\* (then absent); the version is the explicit one if given (even when
\* suppressed), otherwise absent if suppressed, otherwise introspected from the
\* explicit-or-venv executable when there is one, else the running
\* interpreter's major.minor.
C14_TargetResolution ==
    Resolved =>
        LET useVenv == options.venv # None \/ options.infer_venv
            root    == IF options.venv # None THEN Some(AbsPath(options.venv[1]))
                       ELSE InferredRoot
            probes  == Calls("subprocess.check_output")
        IN  /\ IF useVenv
               THEN /\ root # None
                    /\ python_executable # None
                    /\ python_executable[1] \in VenvInterpreters(root[1])
               ELSE IF options.python_executable # None
               THEN python_executable = options.python_executable
               ELSE IF ~options.no_python_executable
               THEN python_executable = Some(env.sys_executable)
               ELSE python_executable = None
            /\ options.venv # None => Calls("_infer_venv_location") = <<>>
            /\ IF options.python_version # None
               THEN python_version = options.python_version /\ probes = <<>>
               ELSE IF options.no_python_version
               THEN python_version = None /\ probes = <<>>
               ELSE IF useVenv \/ options.python_executable # None
               THEN /\ python_version = Some(env.exe_version)
                    /\ Len(probes) = 1
                    /\ probes[1].argv = python_executable
               ELSE /\ python_version = Some(<<env.sys_version.major, ".",
                                               env.sys_version.minor>>)
                    /\ probes = <<>>

\* C14 witness: --venv and --python-executable are both given, VIRTUAL_ENV is
\* set; the target is the interpreter under --venv and its version
C14_Witness ==
    /\ Resolved
    /\ options.venv = Some(<<".nox", "/", "test">>)
    /\ options.infer_venv
    /\ options.python_executable = Some(<<"/", "a", "/", "python">>)
    /\ options.python_version = None /\ ~options.no_python_version
    /\ env.VIRTUAL_ENV # <<>>
    /\ python_executable = Some(<<"/", "work", "/", ".nox", "/", "test", "/", "bin", "/", "python">>)
    /\ python_version = Some(<<"3", ".", "11">>)

HasExecutableFlag(c) ==
    \E t \in Range(c.argv) : Len(t) >= 2 /\ t[2] = "python-executable"

InferDone == unit.fn = "_infer_venv_location" /\ unit.res # None

\* C16: _infer_venv_location takes VIRTUAL_ENV if set, else CONDA_PREFIX if
\* set, else the .venv directory of the working directory if it exists, and
\* returns it as an absolute path; with none of the three it raises
\* ValueError("Could not infer virtual environment"); .venv never overrides
\* a variable that is set.
C16_InferenceOrder ==
    InferDone =>
        LET r == unit.res[1]
        IN  /\ IF InferredRoot # None
               THEN r.exc = "" /\ r.val = InferredRoot[1] /\ Head(r.val) = "/"
               ELSE /\ r.exc = "ValueError"
                    /\ r.msg = <<"Could not infer virtual environment">>
            /\ (env.VIRTUAL_ENV # <<>> \/ env.CONDA_PREFIX # <<>>)
                  => r.val # env.cwd \o <<"/", ".venv">>

\* C16 witness: CONDA_PREFIX is set, VIRTUAL_ENV is not, .venv exists
C16_Witness ==
    /\ InferDone
    /\ env.VIRTUAL_ENV = <<>>
    /\ env.CONDA_PREFIX = <<"/", "conda", "/", "env">>
    /\ <<"/", "work", "/", ".venv">> \in env.dirs
    /\ unit.res[1] = Ok(<<"/", "conda", "/", "env">>)

----------------------------------------------------------------------------
(* Properties of virtual-environment discovery *)

\* a virtual environment is asked for and none with an interpreter is there
DiscoveryFails ==
    /\ options.venv # None \/ options.infer_venv
    /\ LET root == IF options.venv # None THEN Some(AbsPath(options.venv[1]))
                   ELSE InferredRoot
       IN  root = None \/ VenvInterpreters(root[1]) = {}

\* C21: when --venv or --infer-venv is in effect and no environment is
\* located or no interpreter is under it, a run that gets to its checkers
\* raises while the Python target is resolved: no command is ever parsed, the
\* executor is never entered, and main returns no exit status, for every
\* checker list and every policy flag, --dry-run and --allow-errors included.
C21_DiscoveryFailureIsFatal ==
    (Dispatching /\ DiscoveryFails) =>
        /\ Calls("_parse_command") = <<>>
        /\ Calls("_get_python_flags") = <<>>
        /\ Calls("_run_checker") = <<>>
        /\ Calls("subprocess.call") = <<>>
        /\ codes = <<>>
        /\ ret = None
        /\ pc \in {"start", "resolve", "raised"}
        /\ Calls("resolve") # <<>> =>
              /\ pc = "raised"
              /\ exc.exc = "ValueError"
              /\ python_version = None /\ python_executable = None

\* C21 witness: a dry run of two checkers with --allow-errors and
\* --infer-venv on a host without any virtual environment has raised
C21_Witness ==
    /\ pc = "raised"
    /\ exc = Raise("ValueError", <<"Could not infer virtual environment">>)
    /\ options.dry_run /\ options.allow_errors
    /\ options.venv = None /\ options.infer_venv
    /\ Len(options.checkers) = 2
    /\ Calls("_parse_command") = <<>>
    /\ Calls("_run_checker") = <<>>

\* a finished call of _get_python_executable_from_venv
FromVenvDone == unit.fn = "_get_python_executable_from_venv" /\ unit.res # None

\* C22: with file name python.exe on Windows and python elsewhere,
\* _get_python_executable_from_venv returns the absolute path of the first
\* existing file among <root>/bin/<name> and <root>/Scripts/<name>, in that
\* order, for a relative or an absolute root, and raises
\* ValueError("No virtual environment found under <root>") exactly when
\* neither file exists.
C22_InterpreterByPlatform ==
    FromVenvDone =>
        LET r         == unit.res[1]
            root      == AbsPath(unit.arg.location)
            name      == IF env.win THEN "python.exe" ELSE "python"
            inBin     == root \o <<"/", "bin", "/", name>>
            inScripts == root \o <<"/", "Scripts", "/", name>>
        IN  /\ inBin \in env.files => r = Ok(inBin)
            /\ (inBin \notin env.files /\ inScripts \in env.files) => r = Ok(inScripts)
            /\ (r.exc # "") <=> (inBin \notin env.files /\ inScripts \notin env.files)
            /\ r.exc # "" =>
                  r = Raise("ValueError",
                            <<"No virtual environment found under ">> \o unit.arg.location)
            /\ r.exc = "" => Head(r.val) = "/"

\* C22 witness: on Windows, a relative root with bin/python and
\* Scripts/python.exe gives the absolute path of Scripts/python.exe
C22_Witness ==
    /\ FromVenvDone
    /\ env.win
    /\ unit.arg.location = <<".venv">>
    /\ <<"/", "work", "/", ".venv", "/", "bin", "/", "python">> \in env.files
    /\ <<"/", "work", "/", ".venv", "/", "bin", "/", "python.exe">> \notin env.files
    /\ unit.res[1] = Ok(<<"/", "work", "/", ".venv", "/", "Scripts", "/", "python.exe">>)

====
